---- MODULE Spec2Model ----
(***************************************************************************)
(* The template-matching action loop of airtest/core/api.py:               *)
(* check_image_recognition (single-capture and multi-capture mode), its    *)
(* failure recorder _false_log, the backup writer _back_up_image, and the  *)
(* dispatchers adb_default_tap / adb_default_swipe / adb_default_press     *)
(* with the touch and swipe primitives they call.                          *)
(*                                                                         *)
(* Confidences and accuracy_val are floats in the source; the model keeps  *)
(* them as integers in tenths (0.9 is 9), which preserves every comparison *)
(* the code makes.  A capture is represented by the candidates it shows    *)
(* for the one template of the call; the device decides it when the        *)
(* capture is taken.                                                       *)
(***************************************************************************)
EXTENDS Integers, Sequences, FiniteSets, TLC

(* ------------------------------ bounds --------------------------------- *)
MaxRounds == 2      \* largest compare_times_counter
MaxTimes == 2       \* largest *_execute_counter_times
MaxCand == 2        \* longest candidate list the matcher returns

(* ------------------------------ inputs --------------------------------- *)
Confidences == {8, 9, 10}
\* repeatedly_screenshot_times: 1 is single-capture mode, 2 multi-capture mode
ShotTimes == {1, 2}
AccuracyVals == {8, 9}
Offsets == {<<0, 0>>, <<3, -2>>}
Durations == {3, 5}
\* script_object.pyqt6_ui_label_dict: no such attribute, None, {}, a dict
\* without 'log_label', or a dict with both labels
UIStates == {"missing", "none", "empty", "lacks_label", "attached"}
\* ST.FIND_TIMEOUT and ST.FIND_TIMEOUT_TMP, in ticks of the polling clock
\* (20 s and 3 s by default: the first is the longer one)
FIND_TIMEOUT == 3
FIND_TIMEOUT_TMP == 2
\* the timeouts wait is called with run from 0 to MaxTimeout; 0 also stands
\* for None, which `timeout or ST.FIND_TIMEOUT` treats alike
MaxTimeout == 2
Intervals == {0, 1}
\* evaluations a script makes in a row, and seconds its clock may show
MaxCalls == 2
MaxClock == 1
Origin == <<0, 0>>

\* the matcher reports its i-th candidate at a position of its own
PosOf(i) == <<10 * i, 10 * i + 5>>

\* a candidate list: the i-th candidate with confidence cs[i]
Candidates(cs) == [i \in 1..Len(cs) |-> [result |-> PosOf(i), confidence |-> cs[i]]]

ConfSeqs == UNION {[1..n -> Confidences] : n \in 0..MaxCand}

\* what a capture shows: nothing the matcher accepts (None), or a list
NoneResult == [kind |-> "None", list |-> <<>>]
ListResult(l) == [kind |-> "list", list |-> l]
Unbound == [kind |-> "unbound", list |-> <<>>]
FalseResult == [kind |-> "False", list |-> <<>>]

Screens == {NoneResult} \cup {ListResult(Candidates(cs)) : cs \in ConfSeqs}

\* Template.match_all_in(screen): the matcher collaborator
match_all_in(screen) == screen

(* ------------------------------ helpers -------------------------------- *)
\* a position that ignores the offset
IgnoreOffset(p, q) == p

\* map(sum, zip(_pos, offset))
AddPos(p, q) == <<p[1] + q[1], p[2] + q[2]>>

Last(s) == s[Len(s)]

\* number of elements of the ascending list t whose confidence is <= c
RECURSIVE CountLE(_, _)
CountLE(t, c) ==
    IF t = <<>> THEN 0
    ELSE (IF t[1].confidence <= c THEN 1 ELSE 0) + CountLE(Tail(t), c)

\* an insertion that puts e before the elements it ties with
InsertBeforeTies(t, e) ==
    LET k == Cardinality({i \in DOMAIN t : t[i].confidence < e.confidence})
    IN SubSeq(t, 1, k) \o <<e>> \o SubSeq(t, k + 1, Len(t))

Insert(t, e) ==
    LET k == CountLE(t, e.confidence)
    IN SubSeq(t, 1, k) \o <<e>> \o SubSeq(t, k + 1, Len(t))

RECURSIVE StableSort(_)
StableSort(s) ==
    IF s = <<>> THEN <<>>
    ELSE Insert(StableSort(SubSeq(s, 1, Len(s) - 1)), Last(s))

\* a list taken in the matcher's order, without the sort
Unsorted(l) == l

\* sorted(_result, key=lambda d: d['confidence'])
sorted(l) == StableSort(l)

\* a threshold test that lets an equal confidence pass
NotStrict(c, a) == c >= a

\* _best_result[-1]['confidence'] > accuracy_val
Exceeds(c, a) == c > a

(* ------------------------------ records -------------------------------- *)
Ev(op, p1, p2, dur) == [op |-> op, p1 |-> p1, p2 |-> p2, dur |-> dur]
E0(op) == Ev(op, Origin, Origin, 0)

Prob(c) == [below |-> FALSE, conf |-> c]
BelowFloor == [below |-> TRUE, conf |-> 0]

\* the one template of the call
template_image_name == "template_image_name"

LogEntry(method, prob, acc, result) ==
    [method |-> method, template |-> template_image_name, prob |-> prob,
     accuracy_val |-> acc, result |-> result]

\* get_time() + template_image_name + "_" + confidence + "_" + result + ".png"
BackupName(time, prob, result) ==
    [time |-> time, template |-> template_image_name, prob |-> prob,
     result |-> result]

(* ------------------------------ devices -------------------------------- *)
\* devices created in a run, and the uuids they are created with
MaxDevices == 2
UUIDs == {"a", "b"}

\* a device instance: its uuid and which instance it is
Dev(u, k) == [uuid |-> u, id |-> k]
NoDevice == Dev("", 0)
Connected == <<Dev("a", 1), Dev("b", 2)>>

\* an argument of set_current: a uuid, or an int
ByUuid(u) == [isint |-> FALSE, u |-> u, i |-> 0]
ByIndex(i) == [isint |-> TRUE, u |-> "", i |-> i]
NoIdx == ByUuid("")
IdxArgs == {ByUuid(u) : u \in UUIDs \cup {"zz"}}
           \cup {ByIndex(i) : i \in (0 - MaxDevices - 1)..(MaxDevices + 1)}

(* --------------------------- action targets ---------------------------- *)
\* v of touch, v1 and v2 of swipe: a Template, coordinates, or None
Target(k, at) == [kind |-> k, at |-> at]
NoTarget == Target("None", Origin)
ATemplate == Target("Template", Origin)
Coordinates == {Target("pos", <<7, 4>>)}
Ends == {Target("pos", <<9, 2>>)}

\* vector of swipe: None, or two numbers num / den each
Vec(xn, xd, yn, yd) == [given |-> TRUE, xn |-> xn, xd |-> xd, yn |-> yn, yd |-> yd]
NoVector == [given |-> FALSE, xn |-> 0, xd |-> 1, yn |-> 0, yd |-> 1]
\* integer vectors in pixels, and fractions of the screen in tenths
Vectors == {Vec(3, 1, 5, 1), Vec(4, 1, -3, 1), Vec(-2, 1, 1, 1), Vec(0, 1, 0, 1),
            Vec(5, 10, 5, 10), Vec(-3, 10, 2, 10)}
\* G.DEVICE.get_current_resolution()
Resolution == <<20, 30>>

VARIABLES
    is_backup_image,            \* script_object.is_backup_image
    saved,                      \* content of the capture file _screen_image_path
    pc,                         \* position of the call
    compare_times_counter,
    repeatedly_screenshot_times,
    accuracy_val,
    is_refresh_screenshot,
    _num,                       \* rounds completed
    _screen,                    \* the capture being evaluated
    _result,                    \* the matcher's result for it
    _screen_list,               \* the captures of a multi-capture round
    _i,                         \* captures of the round already evaluated
    ret,                        \* what check_image_recognition returned
    raised,                     \* the exception that ended the call, or "none"
    applied,                    \* what the dispatcher returned
    api,                        \* the dispatcher that ran
    calls,                      \* device, matcher and sleep calls, in order
    logs,                       \* log() entries, in order
    backups,                    \* backup files written, in order
    offset,                     \* tap_offset / swipe_offset_position of the dispatcher
    times,                      \* its *_execute_counter_times
    duration,                   \* its swiping_time / pressing_time
    bestSeen,                   \* highest confidence the matcher reported in the call
    exceedsSeen,                \* evaluated captures showing more than accuracy_val
    roundShown,                 \* highest confidence shown by a capture of the round
    ui,                         \* pyqt6_ui_label_dict as the recorder found it
    mirrored,                   \* labels the recorder set on the UI surface
    backup_failed,              \* the backup write of the call raised
    device_failed,              \* a call of the device collaborator raised
    now,                        \* the clock get_time() reads, in seconds
    ncalls,                     \* evaluations the script has completed
    timeout_arg,                \* the timeout wait or exists was called with
    timeout,                    \* the timeout handed to loop_find
    interval,                   \* the interval handed to loop_find
    elapsed,                    \* time.time() - start_time of loop_find
    pos,                        \* what wait, exists or touch returned
    DEVICE_LIST,                \* G.DEVICE_LIST
    DEVICE,                     \* G.DEVICE
    last_op,                    \* the device setup call made last
    arg,                        \* its argument
    before,                     \* G.DEVICE when it was called
    v1,                         \* the target of touch, the start point of swipe
    v2,                         \* the end point swipe was given
    vector,                     \* the vector swipe was given
    pos1,                       \* the start point swipe resolved
    pos2                        \* the end point swipe resolved

vars == <<is_backup_image, saved, pc, compare_times_counter,
          repeatedly_screenshot_times, accuracy_val, is_refresh_screenshot,
          _num, _screen, _result, _screen_list, _i, ret, raised, applied, api,
          calls, logs, backups, offset, times, duration, bestSeen, exceedsSeen,
          roundShown, ui, mirrored, backup_failed, device_failed, now, ncalls,
          timeout_arg, timeout, interval, elapsed, pos, DEVICE_LIST, DEVICE,
          last_op, arg, before, v1, v2, vector, pos1, pos2>>

registry == <<DEVICE_LIST, DEVICE, last_op, arg, before>>

acting == <<v1, v2, vector, pos1, pos2>>

clock == <<now, ncalls>>

polling == <<timeout_arg, timeout, interval, elapsed, pos>>

recorder == <<ui, mirrored, backup_failed>>

dispatched == <<applied, api, offset, times, duration>>

params == <<compare_times_counter, repeatedly_screenshot_times, accuracy_val,
            is_refresh_screenshot>>

RECURSIVE MaxConf(_)
MaxConf(l) ==
    IF l = <<>> THEN 0
    ELSE LET m == MaxConf(Tail(l))
         IN IF l[1].confidence > m THEN l[1].confidence ELSE m

Max(a, b) == IF a > b THEN a ELSE b

\* 1 when the matcher's result res holds a candidate above accuracy_val
Over(res) == IF MaxConf(res.list) > accuracy_val THEN 1 ELSE 0

\* before any call of the evaluation and action functions
InitCalls ==
    /\ is_backup_image \in BOOLEAN
    /\ saved \in Screens
    /\ pc = "idle"
    /\ compare_times_counter = 0
    /\ repeatedly_screenshot_times = 1
    /\ accuracy_val = 9
    /\ is_refresh_screenshot = TRUE
    /\ _num = 0
    /\ _screen = NoneResult
    /\ _result = Unbound
    /\ _screen_list = <<>>
    /\ _i = 0
    /\ ret = Unbound
    /\ raised = "none"
    /\ applied = "none"
    /\ api = "none"
    /\ calls = <<>>
    /\ logs = <<>>
    /\ backups = <<>>
    /\ offset = Origin
    /\ times = 0
    /\ duration = 0
    /\ bestSeen = 0
    /\ exceedsSeen = 0
    /\ roundShown = 0
    /\ ui = "unread"
    /\ mirrored = 0
    /\ backup_failed = FALSE
    /\ device_failed = FALSE
    /\ now = 0
    /\ ncalls = 0
    /\ timeout_arg = 0
    /\ timeout = 0
    /\ interval = 0
    /\ elapsed = 0
    /\ pos = Unbound
    /\ last_op = "none"
    /\ arg = NoIdx
    /\ before = NoDevice
    /\ v1 = NoTarget
    /\ v2 = NoTarget
    /\ vector = NoVector
    /\ pos1 = Unbound
    /\ pos2 = Unbound

\* the script has connected its devices; the second one is current
Init ==
    /\ InitCalls
    /\ DEVICE_LIST = Connected
    /\ DEVICE = Last(Connected)

\* G as helper.py creates it: no device yet
InitDevices ==
    /\ InitCalls
    /\ DEVICE_LIST = <<>>
    /\ DEVICE = NoDevice

\* the evaluation and action functions never assign G.DEVICE or G.DEVICE_LIST
CurrentDropped ==
    /\ DEVICE' = NoDevice
    /\ UNCHANGED <<DEVICE_LIST, last_op, arg, before>>

Untouched == UNCHANGED registry

(* ------------------------- outcome recorder ---------------------------- *)
\* time.strftime("%Y-%m-%d_%H_%M_%S_", ...): the clock to the second
get_time == now

\* _back_up_image(__screen, __confidence, __result)
_back_up_image(prob, result) ==
    IF is_backup_image THEN backups \o <<BackupName(get_time, prob, result)>>
    ELSE backups

\* the exception _send_log_to_ui and _send_image_path_to_ui end with for the
\* UI state u, "none" when both return; readable: cv2.imread found the image
UiOutcome(u, readable) ==
    IF u = "missing" THEN "AttributeError"
    ELSE IF u = "lacks_label" THEN "KeyError"
    ELSE IF u = "attached" /\ ~readable THEN "AttributeError"
    ELSE "none"

\* log, mirror to the UI, back up, return: the recorder of one outcome.
\* mirror is "path" (the template's path is sent to the UI), "name" (its
\* bare name is) or "no" (no UI call).  Nothing is caught.
Record(logprob, backprob, result, value, mirror) ==
    /\ logs' = logs \o <<LogEntry("check_image_recognition", logprob,
                                  accuracy_val, result)>>
    /\ \E u \in (IF mirror = "no" THEN {"unread"} ELSE UIStates),
          readable \in (IF mirror = "name" THEN BOOLEAN ELSE {TRUE}),
          written \in (IF is_backup_image THEN BOOLEAN ELSE {TRUE}) :
         LET uiExc == UiOutcome(u, readable)
             exc == IF uiExc # "none" THEN uiExc
                    ELSE IF ~written THEN "OSError" ELSE "none"
         IN /\ ui' = u
            /\ mirrored' = IF u = "attached" THEN (IF readable THEN 2 ELSE 1) ELSE 0
            /\ backup_failed' = (uiExc = "none" /\ ~written)
            /\ backups' = IF exc = "none" THEN _back_up_image(backprob, result)
                          ELSE backups
            /\ raised' = exc
            /\ pc' = IF exc = "none" THEN "returned" ELSE "raised"
            /\ ret' = IF exc = "none" THEN value ELSE ret

\* a confirming branch that writes no log entry
ConfirmNoLog(best) ==
    /\ logs' = logs
    /\ backups' = _back_up_image(Prob(Last(best).confidence), TRUE)
    /\ UNCHANGED recorder
    /\ ret' = ListResult(best)
    /\ pc' = "returned"
    /\ raised' = "none"

\* the confirming branch of a round: log, mirror (single-capture mode only),
\* backup, return _best_result
Confirm(best) ==
    Record(Prob(Last(best).confidence), Prob(Last(best).confidence), TRUE,
           ListResult(best),
           IF repeatedly_screenshot_times = 1 THEN "path" ELSE "no")

Raise(exc) ==
    /\ pc' = "raised"
    /\ raised' = exc
    /\ UNCHANGED <<ret, logs, backups, recorder>>

\* a failure record that logs the last candidate in the matcher's order
_false_log_unsorted ==
    IF _result.kind = "unbound"
    THEN Raise("UnboundLocalError")
    ELSE IF _result.kind # "None"
         THEN Record(Prob(Last(_result.list).confidence),
                     Prob(Last(_result.list).confidence), FALSE, FalseResult, "name")
         ELSE Record(BelowFloor, BelowFloor, FALSE, FalseResult, "name")

\* _false_log(_result); return False
_false_log ==
    IF _result.kind = "unbound"
    THEN Raise("UnboundLocalError")
    ELSE IF _result.kind # "None"
         THEN Record(Prob(Last(sorted(_result.list)).confidence),
                     Prob(Last(_result.list).confidence), FALSE, FalseResult, "name")
         ELSE Record(BelowFloor, BelowFloor, FALSE, FalseResult, "name")

(* ----------------------- check_image_recognition ----------------------- *)
check_image_recognition(ctc, rst, acc, refresh) ==
    /\ pc = "idle"
    /\ compare_times_counter' = ctc
    /\ repeatedly_screenshot_times' = rst
    /\ accuracy_val' = acc
    /\ is_refresh_screenshot' = refresh
    /\ _num' = 0
    /\ IF rst = 1
       THEN /\ pc' = "single"
            /\ calls' = calls
       ELSE /\ pc' = "multi"
            /\ calls' = calls \o <<E0("sleep_screenshot_wait_time")>>
    /\ Untouched
    /\ UNCHANGED acting
    /\ UNCHANGED <<is_backup_image, clock, polling, recorder, device_failed, saved, _screen, _result, _screen_list, _i,
                   ret, raised, dispatched, logs, backups, bestSeen, exceedsSeen,
                   roundShown>>

\* the calls of G.DEVICE: snapshot, touch, swipe
DeviceOps == {"snapshot", "touch", "swipe"}

\* a device failure turned into the result False
DeviceFailsSwallowed(issued) ==
    /\ calls' = calls \o issued
    /\ device_failed' = TRUE
    /\ raised' = "none"
    /\ pc' = "returned"
    /\ ret' = FalseResult

\* the device call that ends the sequence issued raises: no handler encloses
\* it, the exception leaves the function
DeviceFails(issued) ==
    /\ calls' = calls \o issued
    /\ device_failed' = TRUE
    /\ raised' = "DeviceError"
    /\ pc' = "raised"
    /\ ret' = ret

\* an evaluation that confirms whatever the matcher returned
EvaluateAny(res, onReject) ==
    IF res.kind # "None" /\ res.list # <<>>
    THEN Confirm(sorted(res.list)) /\ _screen_list' = <<>> /\ UNCHANGED <<_num, _i>>
    ELSE onReject /\ UNCHANGED <<ret, raised, logs, backups, recorder>>

\* what one evaluation of a capture decides: the matcher's result res
Evaluate(res, onReject) ==
    IF res.kind # "None"
    THEN IF res.list = <<>>
         THEN Raise("IndexError") /\ UNCHANGED <<_num, _i, _screen_list>>
         ELSE LET _best_result == sorted(res.list)
              IN IF Exceeds(Last(_best_result).confidence, accuracy_val)
                 THEN Confirm(_best_result) /\ _screen_list' = <<>>
                      /\ UNCHANGED <<_num, _i>>
                 ELSE onReject /\ UNCHANGED <<ret, raised, logs, backups, recorder>>
    ELSE onReject /\ UNCHANGED <<ret, raised, logs, backups, recorder>>

\* one round of the single-capture loop
SingleRound ==
    /\ pc = "single"
    /\ _num < compare_times_counter
    /\ \/ \E s \in (IF is_refresh_screenshot THEN Screens ELSE {saved}) :
            /\ saved' = s
            /\ _screen' = s
            /\ _result' = match_all_in(s)
            /\ calls' = calls \o
                  (IF is_refresh_screenshot
                   THEN <<E0("sleep_screenshot_wait_time"), E0("snapshot")>>
                   ELSE <<E0("imread")>>) \o <<E0("match_all_in")>>
            /\ bestSeen' = Max(bestSeen, MaxConf(match_all_in(s).list))
            /\ exceedsSeen' = exceedsSeen + Over(match_all_in(s))
            /\ roundShown' = MaxConf(s.list)
            /\ device_failed' = device_failed
            /\ Evaluate(match_all_in(s),
                        /\ _num' = _num + 1
                        /\ pc' = "single"
                        /\ UNCHANGED <<_i, _screen_list>>)
       \/ /\ is_refresh_screenshot
          /\ DeviceFails(<<E0("sleep_screenshot_wait_time"), E0("snapshot")>>)
          /\ UNCHANGED <<saved, _screen, _result, _num, _i, _screen_list, logs,
                         backups, recorder, bestSeen, exceedsSeen, roundShown>>
    /\ Untouched
    /\ UNCHANGED acting
    /\ UNCHANGED <<is_backup_image, clock, polling, params, dispatched>>

\* a loop that gives up after its first rejected round
SingleFailEarly ==
    /\ pc = "single"
    /\ (_num = compare_times_counter \/ _num >= 1)
    /\ _false_log
    /\ Untouched
    /\ UNCHANGED acting
    /\ UNCHANGED <<is_backup_image, clock, polling, device_failed, saved, params, _num, _screen, _result,
                   _screen_list, _i, dispatched, calls, bestSeen, exceedsSeen,
                   roundShown>>

\* the single-capture loop ran out of rounds
SingleFail ==
    /\ pc = "single"
    /\ _num = compare_times_counter
    /\ _false_log
    /\ Untouched
    /\ UNCHANGED acting
    /\ UNCHANGED <<is_backup_image, clock, polling, device_failed, saved, params, _num, _screen, _result,
                   _screen_list, _i, dispatched, calls, bestSeen, exceedsSeen,
                   roundShown>>

\* a round of the multi-capture loop begins
MultiRound ==
    /\ pc = "multi"
    /\ _num < compare_times_counter
    /\ _screen_list' = <<>>
    /\ roundShown' = 0
    /\ pc' = "multi_capture"
    /\ Untouched
    /\ UNCHANGED acting
    /\ UNCHANGED <<is_backup_image, clock, polling, recorder, device_failed, saved, params, _num, _screen, _result, _i,
                   ret, raised, dispatched, calls, logs, backups, bestSeen,
                   exceedsSeen>>

\* one capture of the round is taken and appended
MultiCapture ==
    /\ pc = "multi_capture"
    /\ \/ /\ \E s \in Screens :
               /\ _screen_list' = Append(_screen_list, s)
               /\ saved' = IF _screen_list = <<>> THEN s ELSE saved
               /\ roundShown' = Max(roundShown, MaxConf(s.list))
          /\ calls' = calls \o <<E0("snapshot")>>
          /\ IF Len(_screen_list) + 1 = repeatedly_screenshot_times
             THEN pc' = "multi_match" /\ _i' = 0
             ELSE pc' = "multi_capture" /\ _i' = _i
          /\ UNCHANGED <<ret, raised, device_failed>>
       \/ /\ DeviceFails(<<E0("snapshot")>>)
          /\ _screen_list' = <<>>
          /\ UNCHANGED <<saved, roundShown, _i>>
    /\ Untouched
    /\ UNCHANGED acting
    /\ UNCHANGED <<is_backup_image, clock, polling, recorder, params, _num, _screen, _result,
                   dispatched, logs, backups, bestSeen, exceedsSeen>>

\* a loop that evaluates the last capture of the round every time
MultiMatchLast ==
    /\ pc = "multi_match"
    /\ LET s == Last(_screen_list)
       IN /\ _screen' = s
          /\ _result' = match_all_in(s)
          /\ calls' = calls \o <<E0("match_all_in")>>
          /\ bestSeen' = Max(bestSeen, MaxConf(match_all_in(s).list))
          /\ exceedsSeen' = exceedsSeen + Over(match_all_in(s))
          /\ Evaluate(match_all_in(s),
                      /\ _screen_list' = _screen_list
                      /\ IF _i + 1 = Len(_screen_list)
                         THEN /\ _num' = _num + 1
                              /\ _i' = 0
                              /\ pc' = "multi"
                         ELSE /\ _num' = _num
                              /\ _i' = _i + 1
                              /\ pc' = "multi_match")
    /\ Untouched
    /\ UNCHANGED acting
    /\ UNCHANGED <<is_backup_image, clock, polling, device_failed, saved, params, dispatched, roundShown>>

\* the next capture of the round is evaluated
MultiMatch ==
    /\ pc = "multi_match"
    /\ LET s == _screen_list[_i + 1]
       IN /\ _screen' = s
          /\ _result' = match_all_in(s)
          /\ calls' = calls \o <<E0("match_all_in")>>
          /\ bestSeen' = Max(bestSeen, MaxConf(match_all_in(s).list))
          /\ exceedsSeen' = exceedsSeen + Over(match_all_in(s))
          /\ Evaluate(match_all_in(s),
                      /\ _screen_list' = _screen_list
                      /\ IF _i + 1 = Len(_screen_list)
                         THEN /\ _num' = _num + 1
                              /\ _i' = 0
                              /\ pc' = "multi"
                         ELSE /\ _num' = _num
                              /\ _i' = _i + 1
                              /\ pc' = "multi_match")
    /\ Untouched
    /\ UNCHANGED acting
    /\ UNCHANGED <<is_backup_image, clock, polling, device_failed, saved, params, dispatched, roundShown>>

\* the multi-capture loop ran out of rounds
MultiFail ==
    /\ pc = "multi"
    /\ _num = compare_times_counter
    /\ _false_log
    /\ _screen_list' = <<>>
    /\ Untouched
    /\ UNCHANGED acting
    /\ UNCHANGED <<is_backup_image, clock, polling, device_failed, saved, params, _num, _screen, _result,
                   _i, dispatched, calls, bestSeen, exceedsSeen, roundShown>>

(* ------------------------- touch and swipe ----------------------------- *)
\* a loop body that runs once whatever the count
RepOnce(n, s) == s

\* for _num in range(n): the calls s of the body, n times over
RECURSIVE Rep(_, _)
Rep(n, s) == IF n = 0 THEN <<>> ELSE s \o Rep(n - 1, s)

\* a touch that lands one pixel to the right of its target
touch_shifted(v, n) ==
    <<E0("try_log_screen")>>
    \o Rep(n, <<Ev("touch", AddPos(v, <<1, 0>>), v, 0), E0("sleep_0.05")>>)
    \o <<E0("delay_after_operation")>>

\* touch(v, times) for coordinates v: the calls it makes, in order
touch(v, n) ==
    <<E0("try_log_screen")>>
    \o Rep(n, <<Ev("touch", v, v, 0), E0("sleep_0.05")>>)
    \o <<E0("delay_after_operation")>>

\* swipe(v1, v2, duration=d) for coordinates v1 and v2
swipe(a, b, d) ==
    <<E0("try_log_screen"), Ev("swipe", a, b, d), E0("delay_after_operation")>>

DispatchLog(method, result) == LogEntry(method, Prob(0), 0, result)

(* --------------------------- dispatchers ------------------------------- *)
\* a dispatcher that reports success on both branches
DispatchReturnsTrue(name, method, perform) ==
    /\ api' = name
    /\ pc' = "done"
    /\ IF ret.kind # "False"
       THEN /\ calls' = calls \o perform
            /\ logs' = logs \o <<DispatchLog(method, TRUE)>>
       ELSE /\ calls' = calls
            /\ logs' = logs \o <<DispatchLog(method, FALSE)>>
    /\ applied' = "True"
    /\ Untouched
    /\ UNCHANGED acting
    /\ UNCHANGED <<is_backup_image, clock, polling, recorder, device_failed, saved, params, _num, _screen, _result,
                   _screen_list, _i, ret, raised, backups, bestSeen, exceedsSeen,
                   roundShown>>

\* a dispatcher that reports whether it issued a call on the device
DispatchReportsIssued(name, method, perform) ==
    /\ api' = name
    /\ pc' = "done"
    /\ IF ret.kind # "False"
       THEN /\ calls' = calls \o perform
            /\ logs' = logs \o <<DispatchLog(method, perform # <<>>)>>
            /\ applied' = IF perform # <<>> THEN "True" ELSE "False"
       ELSE /\ calls' = calls
            /\ logs' = logs \o <<DispatchLog(method, FALSE)>>
            /\ applied' = "False"
    /\ Untouched
    /\ UNCHANGED acting
    /\ UNCHANGED <<is_backup_image, clock, polling, recorder, device_failed, saved,
                   params, _num, _screen, _result, _screen_list, _i, ret, raised,
                   backups, bestSeen, exceedsSeen, roundShown>>

\* the part of a dispatcher that follows its call of check_image_recognition;
\* any touch or swipe of perform may raise, which ends the dispatcher there
Dispatch(name, method, perform) ==
    /\ api' = name
    /\ IF ret.kind # "False"
       THEN \/ /\ calls' = calls \o perform
               /\ logs' = logs \o <<DispatchLog(method, TRUE)>>
               /\ applied' = "True"
               /\ pc' = "done"
               /\ UNCHANGED <<raised, device_failed>>
            \/ \E k \in {j \in DOMAIN perform : perform[j].op \in DeviceOps} :
                 /\ DeviceFails(SubSeq(perform, 1, k))
                 /\ UNCHANGED <<logs, applied>>
       ELSE /\ calls' = calls
            /\ logs' = logs \o <<DispatchLog(method, FALSE)>>
            /\ applied' = "False"
            /\ pc' = "done"
            /\ UNCHANGED <<raised, device_failed>>
    /\ Untouched
    /\ UNCHANGED acting
    /\ UNCHANGED <<is_backup_image, clock, polling, recorder, saved, params, _num, _screen, _result,
                   _screen_list, _i, ret, backups, bestSeen, exceedsSeen,
                   roundShown>>

\* the dispatcher's own arguments, read after check_image_recognition returned
Args(o, d, n) ==
    /\ pc = "returned"
    /\ api = "none"
    /\ offset' = o
    /\ duration' = d
    /\ times' = n

\* taps that wait only between repetitions
TapCallsDelayBetween(_pos, tap_offset, n) ==
    IF n = 0 THEN <<>>
    ELSE touch(AddPos(_pos, tap_offset), 1)
         \o Rep(n - 1, <<E0("sleep_tap_execute_wait_time")>>
                        \o touch(AddPos(_pos, tap_offset), 1))

\* for _num in range(tap_execute_counter_times): sleep, click((_x, _y))
TapCalls(_pos, tap_offset, n) ==
    Rep(n, <<E0("sleep_tap_execute_wait_time")>> \o touch(AddPos(_pos, tap_offset), 1))

adb_default_tap(tap_offset, tap_execute_counter_times) ==
    /\ Args(tap_offset, 0, tap_execute_counter_times)
    /\ Dispatch("adb_default_tap", "adb_default_tap",
             TapCalls(Last(ret.list).result, tap_offset, tap_execute_counter_times))

\* swipes that start from the offset position
SwipeCallsShifted(_pos, swipe_offset_position, swiping_time, n) ==
    Rep(n, <<E0("sleep_swipe_execute_wait_time")>>
           \o swipe(AddPos(_pos, swipe_offset_position),
                    AddPos(_pos, swipe_offset_position), swiping_time))

\* for _num in range(swipe_execute_counter_times): sleep, swipe(_pos, (_x, _y))
SwipeCalls(_pos, swipe_offset_position, swiping_time, n) ==
    Rep(n, <<E0("sleep_swipe_execute_wait_time")>>
           \o swipe(_pos, AddPos(_pos, swipe_offset_position), swiping_time))

adb_default_swipe(swipe_offset_position, swiping_time, swipe_execute_counter_times) ==
    /\ Args(swipe_offset_position, swiping_time, swipe_execute_counter_times)
    /\ Dispatch("adb_default_swipe", "adb_default_swipe",
             SwipeCalls(Last(ret.list).result, swipe_offset_position, swiping_time,
                        swipe_execute_counter_times))

\* for _num in range(press_execute_counter_times): sleep, swipe(_pos, _pos)
PressCalls(_pos, pressing_time, n) ==
    Rep(n, <<E0("sleep_press_execute_wait_time")>> \o swipe(_pos, _pos, pressing_time))

adb_default_press(pressing_time, press_execute_counter_times) ==
    /\ Args(Origin, pressing_time, press_execute_counter_times)
    /\ Dispatch("adb_default_press", "adb_default_swipe",
             PressCalls(Last(ret.list).result, pressing_time, press_execute_counter_times))

(* ---------------------------- wait and exists ------------------------- *)
\* the variables of check_image_recognition and the dispatchers, which wait,
\* exists, touch and swipe leave alone
evaluation == <<is_backup_image, saved, params, _num, _result,
                _screen_list, _i, applied, offset, duration, logs,
                backups, bestSeen, exceedsSeen, roundShown, recorder, clock>>

PosResult(p) == [kind |-> "pos", list |-> <<p>>]

\* Template.match_in(screen): the position of the best candidate, if any
Found(screen) == screen.kind = "list" /\ screen.list # <<>>
match_in(screen) == Last(sorted(screen.list)).result

\* timeout = timeout or ST.FIND_TIMEOUT
TimeoutOrDefault(t) == IF t = 0 THEN FIND_TIMEOUT ELSE t

\* the call of loop_find begins: start_time = time.time()
StartPolling(name, t_arg, t, iv) ==
    /\ pc = "idle"
    /\ api' = name
    /\ timeout_arg' = t_arg
    /\ timeout' = t
    /\ interval' = iv
    /\ elapsed' = 0
    /\ pc' = "searching"
    /\ calls' = calls \o <<E0("loop_find")>>
    /\ Untouched
    /\ UNCHANGED <<evaluation, _screen, ret, raised, device_failed, pos>>

\* wait(v, timeout=t, interval=iv) down to its call of loop_find
wait(t, iv) ==
    /\ StartPolling("wait", t, TimeoutOrDefault(t), iv)
    /\ UNCHANGED <<acting, times>>

\* exists(v) down to its call of loop_find(v, timeout=ST.FIND_TIMEOUT_TMP)
exists(iv) ==
    /\ StartPolling("exists", FIND_TIMEOUT_TMP, FIND_TIMEOUT_TMP, iv)
    /\ UNCHANGED <<acting, times>>

\* a wait that returns without a position
WaitReturnsNone(p) ==
    /\ pos' = NoneResult
    /\ pc' = "polled"
    /\ raised' = "none"

\* pos = loop_find(...); return pos, with p the position found
Return(p) ==
    /\ pos' = PosResult(p)
    /\ pc' = "polled"
    /\ raised' = "none"

\* an exists that lets TargetNotFoundError through
NotFoundPropagates ==
    /\ raised' = "TargetNotFoundError"
    /\ pc' = "raised"
    /\ pos' = pos

\* loop_find raised TargetNotFoundError: exists catches it and returns
\* False; wait and touch have no handler and swipe re-raises
NotFound ==
    IF api = "exists"
    THEN /\ pos' = FalseResult
         /\ pc' = "polled"
         /\ raised' = "none"
    ELSE /\ raised' = "TargetNotFoundError"
         /\ pc' = "raised"
         /\ pos' = pos

(* --------------------------- touch and swipe calls --------------------- *)
\* int(x): the integer part of num / den, den > 0
Trunc(num, den) == IF num >= 0 THEN num \div den ELSE 0 - ((0 - num) \div den)

\* if vector[0] <= 1 and vector[1] <= 1: vector = (int(vector[0] * w),
\* int(vector[1] * h)); the vectors drawn with a component above 1 are
\* integer vectors
Scaled(vec, res) ==
    IF vec.xn <= vec.xd /\ vec.yn <= vec.yd
    THEN <<Trunc(vec.xn * res[1], vec.xd), Trunc(vec.yn * res[2], vec.yd)>>
    ELSE <<vec.xn, vec.yn>>

\* G.DEVICE.swipe(pos1, pos2); delay_after_operation(); return pos1, pos2
SwipeTo(issued, p1, p2) ==
    /\ calls' = calls \o issued \o <<Ev("swipe", p1, p2, 0), E0("delay_after_operation")>>
    /\ pos2' = PosResult(p2)
    /\ pc' = "polled"
    /\ raised' = "none"
    /\ UNCHANGED <<elapsed, timeout>>

\* a swipe that moves before its end point is resolved
SecondEndAfterSwipe(issued, p1, b, vec) ==
    IF b.kind = "Template"
    THEN /\ calls' = calls \o issued \o <<Ev("swipe", p1, p1, 0), E0("loop_find")>>
         /\ pc' = "searching"
         /\ elapsed' = 0
         /\ timeout' = FIND_TIMEOUT_TMP
         /\ UNCHANGED <<pos2, raised>>
    ELSE IF b.kind # "None" THEN SwipeTo(issued, p1, b.at)
    ELSE IF vec.given THEN SwipeTo(issued, p1, AddPos(p1, Scaled(vec, Resolution)))
    ELSE /\ calls' = calls \o issued
         /\ raised' = "Exception"
         /\ pc' = "raised"
         /\ UNCHANGED <<pos2, elapsed, timeout>>

\* swipe once pos1 = p1 is known: if v2 / elif vector / else raise
SecondEnd(issued, p1, b, vec) ==
    IF b.kind = "Template"
    THEN /\ calls' = calls \o issued \o <<E0("loop_find")>>
         /\ pc' = "searching"
         /\ elapsed' = 0
         /\ timeout' = FIND_TIMEOUT_TMP
         /\ UNCHANGED <<pos2, raised>>
    ELSE IF b.kind # "None" THEN SwipeTo(issued, p1, b.at)
    ELSE IF vec.given THEN SwipeTo(issued, p1, AddPos(p1, Scaled(vec, Resolution)))
    ELSE /\ calls' = calls \o issued
         /\ raised' = "Exception"
         /\ pc' = "raised"
         /\ UNCHANGED <<pos2, elapsed, timeout>>

\* touch(v, times=n): a Template goes to loop_find(v, timeout=ST.FIND_TIMEOUT),
\* coordinates are touched as given
Touch(v, n) ==
    IF v.kind = "Template"
    THEN /\ \E iv \in Intervals : StartPolling("touch", FIND_TIMEOUT, FIND_TIMEOUT, iv)
         /\ v1' = v
         /\ times' = n
         /\ UNCHANGED <<v2, vector, pos1, pos2>>
    ELSE /\ pc = "idle"
         /\ api' = "touch"
         /\ v1' = v
         /\ times' = n
         /\ calls' = calls \o touch(v.at, n)
         /\ pos' = PosResult(v.at)
         /\ pc' = "polled"
         /\ Untouched
         /\ UNCHANGED <<evaluation, _screen, ret, raised, device_failed, timeout_arg,
                        timeout, interval, elapsed, v2, vector, pos1, pos2>>

\* swipe(v1=a, v2=b, vector=vec)
Swipe(a, b, vec) ==
    /\ v1' = a
    /\ v2' = b
    /\ vector' = vec
    /\ IF a.kind = "Template"
       THEN /\ \E iv \in Intervals : StartPolling("swipe", FIND_TIMEOUT, FIND_TIMEOUT, iv)
            /\ UNCHANGED <<times, pos1, pos2>>
       ELSE /\ pc = "idle"
            /\ api' = "swipe"
            /\ pos1' = PosResult(a.at)
            /\ SecondEnd(<<E0("try_log_screen")>>, a.at, b, vec)
            /\ Untouched
            /\ UNCHANGED <<evaluation, _screen, ret, device_failed, timeout_arg,
                           interval, pos, times>>

\* loop_find returned p after the calls issued: what its caller does next
Resolved(issued, p) ==
    IF api = "touch"
    THEN /\ calls' = calls \o issued \o Tail(touch(p, times))
         /\ Return(p)
         /\ UNCHANGED <<timeout, acting>>
         /\ elapsed' = elapsed + 1
    ELSE IF api = "swipe"
    THEN IF pos1.kind = "unbound"
         THEN /\ pos1' = PosResult(p)
              /\ SecondEnd(issued, p, v2, vector)
              /\ UNCHANGED <<v1, v2, vector, pos>>
         ELSE /\ SwipeTo(issued, pos1.list[1], p)
              /\ UNCHANGED <<v1, v2, vector, pos1, pos>>
    ELSE /\ calls' = calls \o issued
         /\ Return(p)
         /\ UNCHANGED <<timeout, acting>>
         /\ elapsed' = elapsed + 1

\* one attempt of loop_find: capture, match, then either return the match,
\* or raise once more than timeout has elapsed, or call back, sleep interval
\* and go round again.  An attempt takes one tick of the clock.
loop_find ==
    /\ pc = "searching"
    /\ \/ /\ DeviceFails(<<E0("snapshot")>>)
          /\ UNCHANGED <<elapsed, pos, _screen, timeout, acting>>
       \/ \E screen \in Screens :
            /\ _screen' = screen
            /\ device_failed' = device_failed
            /\ ret' = ret
            /\ IF Found(screen)
               THEN Resolved(<<E0("snapshot"), E0("match_in")>>, match_in(screen))
               ELSE IF elapsed + 1 > timeout
                    THEN /\ calls' = calls \o <<E0("snapshot"), E0("match_in")>>
                         /\ elapsed' = elapsed + 1
                         /\ NotFound
                         /\ UNCHANGED <<timeout, acting>>
                    ELSE /\ calls' = calls \o <<E0("snapshot"), E0("match_in"),
                                                E0("intervalfunc"), E0("sleep_interval")>>
                         /\ elapsed' = elapsed + 1 + interval
                         /\ UNCHANGED <<pc, raised, pos, timeout, acting>>
    /\ Untouched
    /\ UNCHANGED <<evaluation, api, timeout_arg, interval, times>>

(* ------------------------------ device setup -------------------------- *)
\* platform.lower()
lower(platform) ==
    CASE platform = "Android" -> "android"
      [] platform = "IOS" -> "ios"
      [] platform = "Windows" -> "windows"
      [] OTHER -> platform

\* import_device_cls(platform) knows these platforms and raises for others
KnownPlatforms == {"android", "windows", "ios"}
Platforms == {"Android", "android", "IOS", "dos"}

\* the instance a further construction yields: distinct from all kept ones
NextId(l) ==
    LET ids == {l[i].id : i \in DOMAIN l} \cup {0}
    IN 1 + CHOOSE m \in ids : \A k \in ids : k <= m

\* G.add_device(dev): the list with dev added, either at the end or in the
\* place of an instance with the same uuid
Added(l, dev) ==
    {Append(l, dev)}
    \cup {[l EXCEPT ![i] = dev] : i \in {k \in DOMAIN l : l[k].uuid = dev.uuid}}

\* G.add_device(dev): add the instance and set it as the current device
add_device(dev) ==
    /\ DEVICE_LIST' \in Added(DEVICE_LIST, dev)
    /\ DEVICE' = dev

\* the calls a registry operation leaves alone
RegistryOnly ==
    UNCHANGED <<is_backup_image, saved, pc, params, _num, _screen, _result,
                _screen_list, _i, ret, applied, api, calls, logs, backups,
                offset, times, duration, bestSeen, exceedsSeen, roundShown,
                recorder, device_failed, clock, polling, acting>>

\* an init_device that sets the current device without registering it
init_device_unlisted(name, platform, uuid) ==
    /\ pc = "idle"
    /\ last_op' = name
    /\ arg' = ByUuid(uuid)
    /\ before' = DEVICE
    /\ DEVICE_LIST' = DEVICE_LIST
    /\ IF lower(platform) \notin KnownPlatforms
       THEN /\ raised' = "RuntimeError"
            /\ DEVICE' = DEVICE
       ELSE /\ raised' = "none"
            /\ DEVICE' = Dev(uuid, MaxDevices)
    /\ RegistryOnly

\* init_device(platform, uuid): the class is looked up, the instance is
\* constructed (either may raise) and then registered
init_device(name, platform, uuid) ==
    /\ pc = "idle"
    /\ last_op' = name
    /\ arg' = ByUuid(uuid)
    /\ before' = DEVICE
    /\ IF lower(platform) \notin KnownPlatforms
       THEN /\ raised' = "RuntimeError"
            /\ UNCHANGED <<DEVICE_LIST, DEVICE>>
       ELSE \/ /\ raised' = "DeviceConnectionError"
               /\ UNCHANGED <<DEVICE_LIST, DEVICE>>
            \/ /\ NextId(DEVICE_LIST) <= MaxDevices
               /\ raised' = "none"
               /\ add_device(Dev(uuid, NextId(DEVICE_LIST)))
    /\ RegistryOnly

\* connect_device(uri) with uri = platform:///uuid
connect_device(platform, uuid) == init_device("connect_device", platform, uuid)

\* l[i] of a Python list: negative i counts from the end; an index outside
\* -len..len-1 raises IndexError
InRange(l, i) == 0 - Len(l) <= i /\ i < Len(l)
PyIndex(l, i) == IF i >= 0 THEN l[i + 1] ELSE l[Len(l) + i + 1]

\* dev_dict = {dev.uuid: dev for dev in G.DEVICE_LIST}: the last instance of
\* a uuid is the one kept
dev_dict(l) ==
    [u \in {l[i].uuid : i \in DOMAIN l} |->
        l[CHOOSE i \in DOMAIN l : /\ l[i].uuid = u
                                  /\ \A k \in DOMAIN l : l[k].uuid = u => k <= i]]

\* set_current(idx)
set_current(idx) ==
    /\ pc = "idle"
    /\ last_op' = "set_current"
    /\ arg' = idx
    /\ before' = DEVICE
    /\ DEVICE_LIST' = DEVICE_LIST
    /\ IF ~idx.isint /\ idx.u \in DOMAIN dev_dict(DEVICE_LIST)
       THEN /\ DEVICE' = dev_dict(DEVICE_LIST)[idx.u]
            /\ raised' = "none"
       ELSE IF idx.isint /\ idx.i < Len(DEVICE_LIST)
       THEN IF InRange(DEVICE_LIST, idx.i)
            THEN /\ DEVICE' = PyIndex(DEVICE_LIST, idx.i)
                 /\ raised' = "none"
            ELSE /\ DEVICE' = DEVICE
                 /\ raised' = "IndexError"
       ELSE /\ DEVICE' = DEVICE
            /\ raised' = "IndexError"
    /\ RegistryOnly

(* ----------------------- a script's evaluations ------------------------ *)
\* the locals of a call are gone when the script calls again; the backup
\* directory, the capture file and the clock stay
NextEvaluation ==
    /\ pc \in {"returned", "raised"}
    /\ ncalls + 1 < MaxCalls
    /\ ncalls' = ncalls + 1
    /\ pc' = "idle"
    /\ _num' = 0
    /\ _screen' = NoneResult
    /\ _result' = Unbound
    /\ _i' = 0
    /\ ret' = Unbound
    /\ raised' = "none"
    /\ calls' = <<>>
    /\ logs' = <<>>
    /\ bestSeen' = 0
    /\ exceedsSeen' = 0
    /\ roundShown' = 0
    /\ ui' = "unread"
    /\ mirrored' = 0
    /\ backup_failed' = FALSE
    /\ device_failed' = FALSE
    /\ Untouched
    /\ UNCHANGED acting
    /\ UNCHANGED <<is_backup_image, saved, params, _screen_list, dispatched,
                   backups, now, polling>>

\* a second passes between two evaluations
Tick ==
    /\ pc = "idle"
    /\ now < MaxClock
    /\ now' = now + 1
    /\ Untouched
    /\ UNCHANGED acting
    /\ UNCHANGED <<is_backup_image, saved, pc, params, _num, _screen, _result,
                   _screen_list, _i, ret, raised, dispatched, calls, logs,
                   backups, bestSeen, exceedsSeen, roundShown, recorder,
                   device_failed, ncalls, polling>>

Next ==
    \/ \E ctc \in 0..MaxRounds, rst \in ShotTimes, acc \in AccuracyVals,
          refresh \in BOOLEAN : check_image_recognition(ctc, rst, acc, refresh)
    \/ SingleRound
    \/ SingleFail
    \/ MultiRound
    \/ MultiCapture
    \/ MultiMatch
    \/ MultiFail
    \/ \E o \in Offsets, n \in 0..MaxTimes : adb_default_tap(o, n)
    \/ \E o \in Offsets, d \in Durations, n \in 0..MaxTimes : adb_default_swipe(o, d, n)
    \/ \E d \in Durations, n \in 0..MaxTimes : adb_default_press(d, n)
    \/ \E t \in 0..MaxTimeout, iv \in Intervals : wait(t, iv)
    \/ \E iv \in Intervals : exists(iv)
    \/ loop_find

Spec == Init /\ [][Next]_vars

\* wait and exists alone
NextPoll ==
    \/ \E t \in 0..MaxTimeout, iv \in Intervals : wait(t, iv)
    \/ \E iv \in Intervals : exists(iv)
    \/ loop_find

SpecPoll == Init /\ [][NextPoll]_vars

\* the calling thread runs on: the blocking loop of loop_find takes its
\* next step
SpecPollFair == SpecPoll /\ WF_vars(NextPoll)

\* a script that evaluates one template in a polling loop, one round and one
\* capture a time
NextScript ==
    \/ \E acc \in AccuracyVals : check_image_recognition(1, 1, acc, TRUE)
    \/ SingleRound
    \/ SingleFail
    \/ NextEvaluation
    \/ Tick

SpecScript == Init /\ [][NextScript]_vars

\* touch and swipe calls alone
NextActions ==
    \/ \E v \in {ATemplate} \cup Coordinates, n \in 0..MaxTimes : Touch(v, n)
    \/ \E a \in {ATemplate} \cup Coordinates, b \in {NoTarget, ATemplate} \cup Ends,
          vec \in {NoVector} \cup Vectors : Swipe(a, b, vec)
    \/ loop_find

\* the same devices connected and one capture on file that shows the target
InitActions ==
    /\ Init
    /\ saved = ListResult(Candidates(<<10>>))

SpecActions == InitActions /\ [][NextActions]_vars

\* every evaluation and action call of a script
NextCalls ==
    \/ Next
    \/ NextActions

SpecCalls == InitActions /\ [][NextCalls]_vars

\* a session that sets devices up and switches between them
NextDevices ==
    \/ \E platform \in Platforms, uuid \in UUIDs : init_device("init_device", platform, uuid)
    \/ \E platform \in Platforms, uuid \in UUIDs : connect_device(platform, uuid)
    \/ \E idx \in IdxArgs : set_current(idx)

SpecDevices == InitDevices /\ [][NextDevices]_vars

(* ------------------------------ properties ----------------------------- *)
Count(op) == Cardinality({i \in DOMAIN calls : calls[i].op = op})
Issued(op) == {calls[i] : i \in {j \in DOMAIN calls : calls[j].op = op}}
Captures == Count("snapshot") + Count("imread")
Elems(l) == {l[i] : i \in DOMAIN l}
SameCandidates(a, b) == Len(a) = Len(b) /\ Elems(a) = Elems(b)
Acted == Last(ret.list)
Tapped == api = "adb_default_tap" /\ applied = "True"
Swiped == api = "adb_default_swipe" /\ applied = "True"
Pressed == api = "adb_default_press" /\ applied = "True"

\* C1: a call that did not abort returns the candidate list exactly when
\* the best confidence of the capture it evaluated last is strictly greater
\* than accuracy_val; an equal confidence is never confirmed.
C1_StrictThreshold ==
    (raised = "none" /\ _result.kind = "list" /\ _result.list # <<>>)
        => /\ (ret.kind = "list") <=> (MaxConf(_result.list) > accuracy_val)
           /\ (MaxConf(_result.list) = accuracy_val) => ret.kind # "list"

C1_Witness ==
    /\ ret.kind = "False"
    /\ _result.kind = "list"
    /\ MaxConf(_result.list) = accuracy_val

\* C2: when the call confirms, the last element of the returned list has a
\* confidence >= that of every candidate the matcher returned for the
\* capture, and the returned list holds exactly those candidates.
C2_SelectsMaximum ==
    ret.kind = "list"
        => /\ SameCandidates(ret.list, _result.list)
           /\ \A i \in DOMAIN _result.list :
                 Acted.confidence >= _result.list[i].confidence

C2_Witness ==
    /\ Tapped
    /\ Len(_result.list) >= 2
    /\ _result.list[1].confidence > Last(_result.list).confidence

\* C3: a dispatcher whose evaluation returned False issues no touch and no
\* swipe on the device and returns False.
C3_NoActionWhenRejected ==
    (pc = "done" /\ ret.kind = "False")
        => /\ applied = "False"
           /\ Count("touch") = 0
           /\ Count("swipe") = 0

C3_Witness ==
    /\ pc = "done"
    /\ ret.kind = "False"
    /\ api = "adb_default_press"
    /\ times >= 1

\* C4: in single-capture mode the rounds run one after another; a call that
\* confirmed in round k made exactly k captures and k matcher calls, round k
\* is the only round that showed more than accuracy_val, the list returned
\* is that of round k's capture and a tap lands on its best candidate plus
\* the offset; a call that returned False ran exactly compare_times_counter
\* rounds.
C4_ShortCircuit ==
    repeatedly_screenshot_times = 1
        => /\ pc = "single"
                => /\ Count("match_all_in") = _num
                   /\ Captures = _num
                   /\ exceedsSeen = 0
           /\ ret.kind = "list"
                => /\ Count("match_all_in") = _num + 1
                   /\ Captures = _num + 1
                   /\ _num + 1 <= compare_times_counter
                   /\ exceedsSeen = 1
                   /\ MaxConf(_screen.list) > accuracy_val
                   /\ SameCandidates(ret.list, _screen.list)
           /\ ret.kind = "False"
                => /\ Count("match_all_in") = compare_times_counter
                   /\ Captures = compare_times_counter
                   /\ exceedsSeen = 0
           /\ (Tapped /\ times = 1)
                => Issued("touch") =
                      {Ev("touch", <<Acted.result[1] + offset[1],
                                     Acted.result[2] + offset[2]>>,
                                   <<Acted.result[1] + offset[1],
                                     Acted.result[2] + offset[2]>>, 0)}

C4_Witness ==
    /\ Tapped
    /\ times = 1
    /\ compare_times_counter = 2
    /\ repeatedly_screenshot_times = 1
    /\ accuracy_val = 9
    /\ _num = 1
    /\ Acted.confidence = 10
    /\ Count("touch") = 1
    /\ Captures = 2

\* C5: every touch adb_default_tap issues is at the confirmed candidate's
\* position plus tap_offset, componentwise; with offset (0, 0) it is at the
\* candidate's position.
C5_TapPosition ==
    Tapped
        => \A e \in Issued("touch") :
              /\ e.p1 = <<Acted.result[1] + offset[1], Acted.result[2] + offset[2]>>
              /\ (offset = <<0, 0>>) => e.p1 = Acted.result

C5_Witness ==
    /\ Tapped
    /\ offset = <<3, -2>>
    /\ times = 2
    /\ Count("touch") = 2

\* C6: on a confirmed outcome adb_default_tap issues exactly
\* tap_execute_counter_times touches and no swipe, adb_default_swipe and
\* adb_default_press exactly their counter's number of swipes and no touch.
C6_RepetitionCount ==
    /\ Tapped => (Count("touch") = times /\ Count("swipe") = 0)
    /\ Swiped => (Count("swipe") = times /\ Count("touch") = 0)
    /\ Pressed => (Count("swipe") = times /\ Count("touch") = 0)

C6_Witness ==
    /\ Swiped
    /\ times = 2
    /\ Count("swipe") = 2

\* C7: every swipe of adb_default_swipe goes from the candidate's position
\* to that position plus swipe_offset_position with duration swiping_time;
\* every swipe of adb_default_press goes from the position to itself with
\* duration pressing_time.
C7_SwipeEndpoints ==
    /\ Swiped
         => \A e \in Issued("swipe") :
               /\ e.p1 = Acted.result
               /\ e.p2 = <<Acted.result[1] + offset[1], Acted.result[2] + offset[2]>>
               /\ e.dur = duration
    /\ Pressed
         => \A e \in Issued("swipe") :
               /\ e.p1 = Acted.result
               /\ e.p2 = Acted.result
               /\ e.dur = duration

C7_Witness ==
    /\ Swiped
    /\ offset = <<3, -2>>
    /\ duration = 5
    /\ Count("swipe") >= 1

\* C8 as stated: n >= 1 repetitions of adb_default_tap sleep
\* tap_execute_wait_time exactly n - 1 times, never before the first touch.
C8_DelayOnlyBetween ==
    (Tapped /\ times >= 1)
        => /\ Count("sleep_tap_execute_wait_time") = times - 1
           /\ \A i \in DOMAIN calls :
                 calls[i].op = "sleep_tap_execute_wait_time"
                    => \E j \in 1..(i - 1) : calls[j].op = "touch"

\* C8 amended: adb_default_tap sleeps tap_execute_wait_time before every
\* touch, the first included: n repetitions sleep exactly n times, and the
\* nearest touch or delay before each touch is a delay.
C8_DelayBeforeEveryTouch ==
    Tapped
        => /\ Count("sleep_tap_execute_wait_time") = times
           /\ \A i \in DOMAIN calls :
                 calls[i].op = "touch"
                    => \E j \in 1..(i - 1) :
                          /\ calls[j].op = "sleep_tap_execute_wait_time"
                          /\ \A k \in (j + 1)..(i - 1) : calls[k].op # "touch"

C8_Witness ==
    /\ Tapped
    /\ times = 2
    /\ Count("sleep_tap_execute_wait_time") = 2
    /\ Count("touch") = 2

\* C9 as stated: in multi-capture mode the candidate of a confirming round
\* has a confidence >= every candidate shown by any capture taken in that
\* round.
C9_PooledMaximum ==
    (repeatedly_screenshot_times > 1 /\ ret.kind = "list")
        => Acted.confidence >= roundShown

\* C9 amended: in multi-capture mode the captures of a round are evaluated
\* one at a time in the order taken, and the first capture whose own best
\* candidate exceeds accuracy_val confirms: the candidate returned is the
\* best of that capture, every capture taken before it in the round showed
\* nothing above accuracy_val, and no later capture is evaluated.
C9_FirstConfirmingCapture ==
    [][(pc = "multi_match" /\ ret'.kind = "list")
         => /\ \A j \in 1.._i : MaxConf(_screen_list[j].list) <= accuracy_val
            /\ MaxConf(_screen_list[_i + 1].list) > accuracy_val
            /\ SameCandidates(ret'.list, _screen_list[_i + 1].list)
            /\ Last(ret'.list).confidence = MaxConf(_screen_list[_i + 1].list)
            /\ Len(calls') = Len(calls) + 1
            /\ pc' = "returned"]_vars

C9_Witness ==
    /\ repeatedly_screenshot_times > 1
    /\ ret.kind = "list"
    /\ roundShown > Acted.confidence

\* C10 as stated: the failure record reports the highest confidence seen in
\* any round, and the below-floor sentinel only if no round had a candidate.
C10_RecordOverAllRounds ==
    ret.kind = "False"
        => logs[1].prob = (IF bestSeen = 0 THEN BelowFloor ELSE Prob(bestSeen))

\* C10 amended: the failure record reports the capture evaluated last: the
\* highest confidence among that capture's candidates, and the below-floor
\* sentinel exactly when the matcher returned None for that capture.
C10_RecordOfLastCapture ==
    ret.kind = "False"
        => /\ logs[1].method = "check_image_recognition"
           /\ logs[1].result = FALSE
           /\ logs[1].accuracy_val = accuracy_val
           /\ logs[1].prob = (IF _result.kind = "None" THEN BelowFloor
                              ELSE Prob(MaxConf(_result.list)))

C10_Witness ==
    /\ ret.kind = "False"
    /\ _num >= 2
    /\ bestSeen > MaxConf(_result.list)
    /\ logs[1].prob = (IF _result.kind = "None" THEN BelowFloor
                       ELSE Prob(MaxConf(_result.list)))

Evaluations == {i \in DOMAIN logs : logs[i].method = "check_image_recognition"}
Ended == pc \in {"returned", "raised", "done"} /\ api \notin {"wait", "exists"}

\* C11: when the matcher returned None for every capture of a call of
\* compare_times_counter >= 1 rounds, the call returns False and writes
\* exactly one evaluation log entry, which carries the below-floor sentinel,
\* and the dispatcher touches and swipes nothing and returns False.
C11_NoCandidateReturnsFalse ==
    (/\ Ended
     /\ compare_times_counter >= 1
     /\ _num = compare_times_counter
     /\ _result.kind = "None"
     /\ bestSeen = 0
     /\ ~device_failed)
        => /\ ret.kind = "False"
           /\ Cardinality(Evaluations) = 1
           /\ \A i \in Evaluations : logs[i].prob = BelowFloor
           /\ pc = "done"
                => (applied = "False" /\ Count("touch") = 0 /\ Count("swipe") = 0)

\* C12: whenever check_image_recognition returns something other than
\* False, the list returned is not empty and the confidence of its last
\* element is strictly greater than accuracy_val.
C12_ConfirmedListExceeds ==
    ret.kind # "False" /\ ret.kind # "unbound"
        => /\ ret.kind = "list"
           /\ ret.list # <<>>
           /\ Last(ret.list).confidence > accuracy_val

C12_Witness ==
    /\ ret.kind = "list"
    /\ repeatedly_screenshot_times > 1
    /\ Len(ret.list) = 1
    /\ Last(ret.list).confidence = accuracy_val + 1

\* C13: a call of check_image_recognition that returned wrote exactly one
\* evaluation log entry, in either mode and on either outcome; the entry
\* names the template, accuracy_val, the boolean outcome, and the confidence
\* of the candidate returned, or of the capture evaluated last, or the
\* below-floor sentinel when that capture had no candidate.
C13_OneLogEntryPerCall ==
    ret.kind \in {"list", "False"}
        => /\ Cardinality(Evaluations) = 1
           /\ \A i \in Evaluations :
                 /\ logs[i].template = template_image_name
                 /\ logs[i].accuracy_val = accuracy_val
                 /\ logs[i].result = (ret.kind = "list")
                 /\ logs[i].prob =
                       (IF ret.kind = "list" THEN Prob(Last(ret.list).confidence)
                        ELSE IF _result.kind = "None" THEN BelowFloor
                        ELSE Prob(MaxConf(_result.list)))

C13_Witness ==
    /\ ret.kind = "False"
    /\ repeatedly_screenshot_times = 2
    /\ compare_times_counter = 2
    /\ Count("match_all_in") = 4
    /\ Cardinality(Evaluations) = 1
    /\ pc = "done"

\* C14: a backup write that fails leaves the evaluation as it would be with
\* backup disabled: the call still returns its list or False and raises
\* nothing.
C14_BackupFailureHarmless ==
    backup_failed => (raised = "none" /\ ret.kind \in {"list", "False"})

\* C15: whatever the state of pyqt6_ui_label_dict (absent, None, empty,
\* lacking a label, attached), on the confirmed and on the rejected path,
\* mirroring raises nothing and the call returns its list or False.
C15_MirroringNeverRaises ==
    ui \in UIStates
        => /\ raised \notin {"AttributeError", "KeyError"}
           /\ ~backup_failed => ret.kind \in {"list", "False"}

\* C16: with backup enabled, over any sequence of evaluations no two backup
\* writes target the same file name.
C16_BackupNamesUnique ==
    \A i, j \in DOMAIN backups : i # j => backups[i] # backups[j]

\* C17: wait(v, timeout=0) makes exactly one matching attempt, and raises
\* TargetNotFoundError as soon as that attempt has failed.
C17_ZeroTimeoutOneAttempt ==
    (api = "wait" /\ timeout_arg = 0)
        => /\ Count("match_in") <= 1
           /\ (Count("match_in") = 1 /\ ~Found(_screen))
                 => raised = "TargetNotFoundError"

\* C18: exists(v) never raises TargetNotFoundError; it returns False
\* exactly when loop_find timed out (its last attempt found nothing and more
\* than the timeout had elapsed), and the position of the match when
\* loop_find found one.
C18_ExistsNeverRaisesNotFound ==
    api = "exists"
        => /\ raised # "TargetNotFoundError"
           /\ timeout = FIND_TIMEOUT_TMP
           /\ pc = "polled"
                => /\ (pos.kind = "False") <=> (~Found(_screen) /\ elapsed > timeout)
                   /\ Found(_screen) => pos = PosResult(match_in(_screen))
           /\ (pc = "searching" /\ elapsed > 0)
                => (~Found(_screen) /\ elapsed <= timeout + interval)

C18_Witness ==
    /\ api = "exists"
    /\ pc = "polled"
    /\ pos.kind = "False"
    /\ Count("match_in") >= 2

\* C19 as stated: wait ends in one of two ways only: it returns the
\* position matched or it raises TargetNotFoundError.
C19_TwoOutcomes ==
    (api = "wait" /\ pc \in {"polled", "raised"})
        => (pos.kind = "pos" \/ raised = "TargetNotFoundError")

\* C19 amended: for every timeout and interval, on a clock that advances
\* with each attempt, wait always ends, in one of three ways: it returns the
\* position matched, it raises TargetNotFoundError after an attempt that
\* found nothing with more than the timeout elapsed, or the failure of a
\* device call leaves it; it never returns without a position and never
\* stays searching.
C19_WaitEnds ==
    /\ [](api = "wait"
            => /\ pc \in {"searching", "polled", "raised"}
               /\ pc = "polled" => (Found(_screen) /\ pos = PosResult(match_in(_screen)))
               /\ pc = "raised"
                    => \/ raised = "DeviceError" /\ device_failed
                       \/ /\ raised = "TargetNotFoundError"
                          /\ ~Found(_screen)
                          /\ elapsed > timeout)
    /\ (api = "wait") ~> (pc \in {"polled", "raised"})

C19_Witness ==
    /\ api = "wait"
    /\ raised = "TargetNotFoundError"
    /\ interval = 1
    /\ Count("match_in") >= 2

\* C20: when a call of the device collaborator (snapshot, touch, swipe)
\* raises during exists, check_image_recognition or a dispatcher, the
\* exception leaves the function: nothing is returned, neither False nor
\* anything else, no log entry reports an outcome of the dispatcher, the
\* failed call is the last call made and no call follows it.
C20_DeviceFailurePropagates ==
    /\ [](device_failed
            => /\ raised = "DeviceError"
               /\ pc = "raised"
               /\ pos.kind = "unbound"
               /\ applied = "none"
               /\ (api \in {"none", "exists"}) => ret.kind = "unbound"
               /\ Last(calls).op \in DeviceOps)
    /\ [][device_failed => calls' = calls]_vars

C20_Witness ==
    /\ device_failed
    /\ api = "adb_default_tap"
    /\ times = 2
    /\ Count("touch") = 2
    /\ raised = "DeviceError"

Evaluating == pc \notin {"idle", "searching", "polled"} /\ api \notin {"wait", "exists"}

\* C22: a call with is_refresh_screenshot False takes no snapshot from the
\* device in any round, in single-capture and in multi-capture mode, and
\* evaluates the saved capture.
C22_NoSnapshotWithoutRefresh ==
    (Evaluating /\ ~is_refresh_screenshot)
        => /\ Count("snapshot") = 0
           /\ Count("match_all_in") >= 1 => _screen = saved

\* C23: with backup enabled, the confidence in the backup file name of an
\* evaluation equals the confidence of its log entry, which is the maximum
\* confidence of the evaluated capture (or the sentinel), on the confirmed
\* and on the rejected path, whatever the order of the matcher's list.
C23_BackupMatchesLog ==
    (is_backup_image /\ ret.kind \in {"list", "False"})
        => /\ Len(backups) = 1
           /\ \A i \in Evaluations : backups[1].prob = logs[i].prob
           /\ backups[1].prob = (IF _result.kind = "None" THEN BelowFloor
                                 ELSE Prob(MaxConf(_result.list)))

DeviceActions == Count("touch") + Count("swipe")

\* C24 as stated: a dispatcher returns True exactly when it issued at least
\* one touch or swipe on the device, for every repetition count >= 0.
C24_TrueIffIssued ==
    pc = "done" => ((applied = "True") <=> (DeviceActions >= 1))

\* C24 amended: a dispatcher returns True exactly when its evaluation
\* confirmed, and False exactly when it returned False; with a repetition
\* count >= 1 that is exactly when a touch or swipe was issued, and with a
\* count of 0 it returns True on a confirmed evaluation having issued none.
C24_TrueIffConfirmed ==
    pc = "done"
        => /\ (applied = "True") <=> (ret.kind = "list")
           /\ (applied = "False") <=> (ret.kind = "False")
           /\ times >= 1 => ((applied = "True") <=> (DeviceActions >= 1))
           /\ (applied = "True" /\ times = 0) => DeviceActions = 0

C24_Witness ==
    /\ pc = "done"
    /\ api = "adb_default_swipe"
    /\ applied = "True"
    /\ times = 0
    /\ DeviceActions = 0

\* the index of the candidate that comes last in the matcher's list l among
\* those of maximum confidence
LastOfTies(l) ==
    CHOOSE k \in DOMAIN l :
        /\ l[k].confidence = MaxConf(l)
        /\ \A j \in DOMAIN l : j > k => l[j].confidence < MaxConf(l)

\* C28: when several candidates of the confirming capture tie at the maximum
\* confidence, the candidate selected is the one that comes last among them
\* in the matcher's order, and a tap lands on that candidate's position plus
\* the offset.
C28_LastOfTiesSelected ==
    ret.kind = "list"
        => /\ Acted = _result.list[LastOfTies(_result.list)]
           /\ Tapped
                => \A e \in Issued("touch") :
                      e.p1 = AddPos(_result.list[LastOfTies(_result.list)].result, offset)

C28_Witness ==
    /\ Tapped
    /\ Count("touch") >= 1
    /\ Len(_result.list) = 2
    /\ _result.list[1].confidence = _result.list[2].confidence
    /\ _result.list[1].result # _result.list[2].result
    /\ Acted.result = _result.list[2].result

\* the calls that resolve a target, and the device calls that act on it
Resolving == {"loop_find", "snapshot", "match_in", "try_log_screen"}
After(ops, later) ==
    \A i, j \in DOMAIN calls :
        (calls[i].op \in ops /\ calls[j].op = later) => i < j

\* C21: set_current(idx) makes current the device whose uuid is idx, or the
\* device at index idx when idx is an integer with 0 <= idx < number of
\* devices; for every other idx it raises IndexError and leaves the current
\* device unchanged.
C21_SetCurrentByUuidOrIndex ==
    last_op = "set_current" =>
        LET n == Len(DEVICE_LIST)
        IN IF ~arg.isint /\ \E i \in 1..n : DEVICE_LIST[i].uuid = arg.u
           THEN /\ raised = "none"
                /\ DEVICE.uuid = arg.u
                /\ \E i \in 1..n : DEVICE_LIST[i] = DEVICE
           ELSE IF arg.isint /\ 0 <= arg.i /\ arg.i < n
           THEN /\ raised = "none"
                /\ DEVICE = DEVICE_LIST[arg.i + 1]
           ELSE /\ raised = "IndexError"
                /\ DEVICE = before

\* C25: touch(v, times=n) resolves its target exactly once, before any
\* device call (by polling for a Template, as given for coordinates), then
\* issues exactly n device touches at that one position and returns it; a
\* Template that is not found raises TargetNotFoundError with no touch.
C25_TouchResolvesOnce ==
    api = "touch" =>
        /\ IF v1.kind = "Template"
           THEN Count("loop_find") = 1 /\ Count("try_log_screen") = 0
           ELSE Count("loop_find") = 0 /\ Count("try_log_screen") = 1
        /\ After(Resolving, "touch")
        /\ pc # "polled" => Count("touch") = 0
        /\ raised = "TargetNotFoundError" => pc = "raised"
        /\ pc = "polled" =>
              /\ pos.kind = "pos"
              /\ v1.kind = "pos" => pos.list[1] = v1.at
              /\ v1.kind = "Template" => Found(_screen) /\ pos.list[1] = match_in(_screen)
              /\ Count("touch") = times
              /\ \A e \in Issued("touch") : e.p1 = pos.list[1]

C25_Witness ==
    /\ api = "touch"
    /\ v1.kind = "Template"
    /\ pc = "polled"
    /\ times = 2
    /\ Count("touch") = 2
    /\ Count("intervalfunc") >= 1

\* C26: swipe issues at most one device swipe, and only after both end
\* points are resolved, v1 before v2; if v1 or v2 is a Template that is not
\* found, or neither v2 nor vector is given, it raises and issues no swipe.
C26_SwipeAfterBothEnds ==
    api = "swipe" =>
        /\ Count("swipe") <= 1
        /\ After(Resolving, "swipe")
        /\ pos2.kind = "pos" => pos1.kind = "pos"
        /\ Count("loop_find") = (IF v1.kind = "Template" THEN 1 ELSE 0)
                                + (IF v2.kind = "Template" /\ pos1.kind = "pos" THEN 1 ELSE 0)
        /\ Count("swipe") = 1 <=> pc = "polled"
        /\ pc = "polled" =>
              /\ pos1.kind = "pos" /\ pos2.kind = "pos"
              /\ \A e \in Issued("swipe") : e.p1 = pos1.list[1] /\ e.p2 = pos2.list[1]
        /\ (v2.kind = "None" /\ ~vector.given /\ pos1.kind = "pos")
              => pc = "raised" /\ raised = "Exception"
        /\ raised = "TargetNotFoundError" => pc = "raised"

C26_Witness ==
    /\ api = "swipe"
    /\ v1.kind = "Template"
    /\ v2.kind = "Template"
    /\ pc = "polled"
    /\ Count("swipe") = 1
    /\ Count("loop_find") = 2

\* the vector in pixels when only a fraction of the screen is scaled
ScaledIfFraction(vec, res) ==
    IF vec.xd > 1 \/ vec.yd > 1
    THEN <<Trunc(vec.xn * res[1], vec.xd), Trunc(vec.yn * res[2], vec.yd)>>
    ELSE <<vec.xn, vec.yn>>

\* C27: swipe(v1, vector=(dx, dy)) with an absolute integer vector ends at
\* pos1 + (dx, dy), for every integer vector (positive, zero or negative
\* components); only a vector given as a fraction of the screen is scaled.
C27_AbsoluteVectorAdded ==
    (api = "swipe" /\ pc = "polled" /\ v2.kind = "None" /\ vector.given) =>
        /\ pos2.list[1] = AddPos(pos1.list[1], ScaledIfFraction(vector, Resolution))
        /\ \A e \in Issued("swipe") : e.p2 = pos2.list[1]

\* C29: no evaluation or action call (check_image_recognition, the
\* dispatchers, touch, swipe, wait, exists) changes the current device or
\* the registry, also when the call fails.
C29_RegistryUntouched ==
    /\ DEVICE_LIST = Connected
    /\ DEVICE = Last(Connected)

C29_Witness ==
    /\ pc = "raised"
    /\ raised = "DeviceError"
    /\ api = "swipe"
    /\ DEVICE = Last(Connected)

\* C30: after any sequence of init_device, connect_device and set_current
\* calls, succeeding or failing, at most one device is current and the
\* current device, once set, is in the registry list.
C30_CurrentInRegistry ==
    DEVICE # NoDevice =>
        Cardinality({i \in DOMAIN DEVICE_LIST : DEVICE_LIST[i] = DEVICE}) = 1

C30_Witness ==
    /\ last_op = "set_current"
    /\ raised = "IndexError"
    /\ Len(DEVICE_LIST) = 2
    /\ DEVICE = DEVICE_LIST[1]

\* C31: for every compare_times_counter >= 0, every
\* repeatedly_screenshot_times >= 1 and every matcher outcome (no result, an
\* empty candidate list, a non-empty list), check_image_recognition never
\* aborts with an internal error of its own: reading the result of a round
\* that did not run, or indexing an empty candidate list.
C31_NoInternalError ==
    pc \in {"single", "multi", "multi_capture", "multi_match", "returned", "raised"}
        => raised \notin {"UnboundLocalError", "IndexError"}
====
